---- MODULE Spec2Model ----
(***************************************************************************)
(* Model of the focus command line (focus/commands/src/cli/main.rs) and of *)
(* the coordinate parser (focus/internals/src/lib/coordinate.rs).          *)
(*                                                                         *)
(* Strings are sequences of one-character strings, so that split_once,     *)
(* split, join and eq_ignore_ascii_case are computed character by          *)
(* character as the Rust code computes them.                               *)
(***************************************************************************)
EXTENDS Integers, Sequences, FiniteSets, TLC

VARIABLES
    \* ---- label parsing and formatting (coordinate.rs) ----
    lphase,     \* position in the parse / display pipeline
    lorigin,    \* "str": the pipeline started from a string, "label": from a Label
    lstr,       \* the input string s
    lab,        \* result of Label::from_str(s), or the Label L the pipeline started from
    shown,      \* format!("{}", label)
    lab2,       \* result of Label::from_str(shown)
    shown2,     \* format!("{}", lab2)
    \* ---- coordinate parsing (coordinate.rs) ----
    cphase,     \* "input" or "parsed"
    cinput,     \* the argument of Coordinate::try_from
    cres,       \* its result
    \* ---- coordinate sets and the directory resolver ----
    sphase,     \* "list", "set", "built", "failed" or "resolved"
    slist,      \* the argument of CoordinateSet::try_from(&[String])
    sidx,       \* number of strings of slist the loop has consumed
    selems,     \* what Coordinate::try_from returned for each consumed string
    sunder,     \* the HashSet<Coordinate> being filled or converted
    sset,       \* the resulting Result<CoordinateSet, CoordinateError>
    rres,       \* what DirectoryResolver::resolve returned for the set
    \* ---- one repository and the focus processes working on it (main.rs) ----
    pc,         \* pc[p]: position of process p inside main / run_subcommand
    cmd,        \* cmd[p]: the subcommand of the current invocation of p
    arg,        \* arg[p]: projects_and_targets of an Add / Remove
    result,     \* result[p]: outcome of run_subcommand of the current invocation
    upgradeSeen,\* upgradeSeen[p]: what is_upgrade_required answered to p
    snap,       \* snap[p]: the selection operation::sync::run loaded
    runs,       \* number of invocations started so far
    lockHolders,\* the processes holding .focus/focus.lock
    focused,    \* whether <repo>/.focus/ exists
    diskVersion,\* content of .focus/migration.version
    selection,  \* the persisted selection (targets)
    sparse,     \* the sparse-checkout pattern set on disk
    cleanSeen,  \* cleanSeen[p]: what operation::ensure_clean::run found for p
    \* ---- one run of main (main.rs: main_and_drop_locals, main) ----
    mpc,        \* position inside main_and_drop_locals / main
    mopts,      \* FocusOpts and the environment the run depends on
    mrun,       \* what run_subcommand returned
    minvocation,\* exit code written by write_invocation_message
    mexit,      \* exit status of the process
    \* ---- one call of a git helper (git_helper.rs) ----
    gpc,        \* position inside the helper
    gcall,      \* the helper called and its arguments
    gstdout,    \* content of the sandbox command's captured stdout
    gspawned,   \* child processes spawned so far
    gstatus,    \* exit status of the child
    gret        \* what the helper returned

lvars == <<lphase, lorigin, lstr, lab, shown, lab2, shown2>>
cvars == <<cphase, cinput, cres>>
pvars == <<pc, cmd, arg, result, upgradeSeen, snap, runs, lockHolders, focused,
           diskVersion, selection, sparse, cleanSeen>>
svars == <<sphase, slist, sidx, selems, sunder, sset, rres>>
mvars == <<mpc, mopts, mrun, minvocation, mexit>>
gvars == <<gpc, gcall, gstdout, gspawned, gstatus, gret>>
vars == <<lvars, cvars, pvars, svars, mvars, gvars>>

----------------------------------------------------------------------------
(* Bounds *)

MaxLen == 5          \* longest label string drawn as an input
MaxComps == 2        \* longest path_components list of a Label drawn as an input
MaxTail == 4         \* longest text after the scheme of a coordinate input
NumProcs == 2        \* concurrent focus processes on the repository
MaxRuns == 3         \* invocations started in one behaviour
RequiredVersion == 1 \* format version the binary expects
MaxList == 2         \* longest list of strings converted to a CoordinateSet
MaxSet == 2          \* largest HashSet<Coordinate> converted to a CoordinateSet
MaxDir == 2          \* longest payload of a Directory coordinate of such a set
MaxExitCode == 2     \* largest exit code a child process passes through
MaxThreads == 1      \* largest --resolution-threads drawn as an input
MaxStatus == 2       \* largest exit status of a git child process

----------------------------------------------------------------------------
(* Strings *)

Alphabet == {"a", "/", ":", ".", "@"}

StringsUpTo(n) == UNION {[1..k -> Alphabet] : k \in 0..n}

Upper == <<"A","B","C","D","E","F","G","H","I","J","K","L","M",
           "N","O","P","Q","R","S","T","U","V","W","X","Y","Z">>
Lower == <<"a","b","c","d","e","f","g","h","i","j","k","l","m",
           "n","o","p","q","r","s","t","u","v","w","x","y","z">>

\* u8::to_ascii_lowercase
ToAsciiLower(c) ==
    IF \E i \in 1..26 : Upper[i] = c
    THEN Lower[CHOOSE i \in 1..26 : Upper[i] = c]
    ELSE c

\* str::eq_ignore_ascii_case
EqIgnoreAsciiCase(s, t) ==
    /\ Len(s) = Len(t)
    /\ \A i \in 1..Len(s) : ToAsciiLower(s[i]) = ToAsciiLower(t[i])

NoSplit == [found |-> FALSE, before |-> <<>>, after |-> <<>>]

\* str::split_once(pat): scan from the left for the first match of pat
RECURSIVE SplitOnceFrom(_, _, _)
SplitOnceFrom(s, pat, i) ==
    IF i + Len(pat) - 1 > Len(s) THEN NoSplit
    ELSE IF SubSeq(s, i, i + Len(pat) - 1) = pat
         THEN [found |-> TRUE,
               before |-> SubSeq(s, 1, i - 1),
               after |-> SubSeq(s, i + Len(pat), Len(s))]
         ELSE SplitOnceFrom(s, pat, i + 1)

SplitOnce(s, pat) == SplitOnceFrom(s, pat, 1)

\* str::rsplit_once(pat): scan from the right for the last match of pat
RECURSIVE RSplitOnceFrom(_, _, _)
RSplitOnceFrom(s, pat, i) ==
    IF i < 1 THEN NoSplit
    ELSE IF SubSeq(s, i, i + Len(pat) - 1) = pat
         THEN [found |-> TRUE,
               before |-> SubSeq(s, 1, i - 1),
               after |-> SubSeq(s, i + Len(pat), Len(s))]
         ELSE RSplitOnceFrom(s, pat, i - 1)

RSplitOnce(s, pat) == RSplitOnceFrom(s, pat, Len(s) - Len(pat) + 1)

\* str::split(ch).collect(): always at least one segment, empty ones kept
RECURSIVE Split(_, _)
Split(s, ch) ==
    LET r == SplitOnce(s, <<ch>>)
    IN IF r.found THEN <<r.before>> \o Split(r.after, ch) ELSE <<s>>

\* [String]::join(sep)
RECURSIVE Join(_, _)
Join(parts, sep) ==
    IF Len(parts) = 0 THEN <<>>
    ELSE IF Len(parts) = 1 THEN parts[1]
    ELSE parts[1] \o sep \o Join(Tail(parts), sep)

\* Vec::pop: the list without its last element
Front(q) == SubSeq(q, 1, Len(q) - 1)

----------------------------------------------------------------------------
(* Label (coordinate.rs) *)

None == [some |-> FALSE, val |-> <<>>]
Some(v) == [some |-> TRUE, val |-> v]

Ellipsis == [kind |-> "Ellipsis", name |-> <<>>]
Name(n) == [kind |-> "Name", name |-> n]

Label(ext, comps, tn) ==
    [external_repository |-> ext, path_components |-> comps, target_name |-> tn]

NoLabel == Label(None, <<>>, Ellipsis)

OkLabel(l) == [ok |-> TRUE, label |-> l, err |-> "none"]
ErrLabel(e) == [ok |-> FALSE, label |-> NoLabel, err |-> e]

\* Display that writes the ellipsis without its separating slash
DisplayNoSlash(l) ==
    <<"/", "/">> \o Join(l.path_components, <<"/">>)
      \o (IF l.target_name.kind = "Name"
          THEN <<":">> \o l.target_name.name
          ELSE <<".", ".", ".">>)

\* Display that leaves the name out when it repeats the last component
DisplayElideName(l) ==
    <<"/", "/">> \o Join(l.path_components, <<"/">>)
      \o (IF l.target_name.kind = "Name"
          THEN IF /\ Len(l.path_components) > 0
                  /\ l.path_components[Len(l.path_components)] = l.target_name.name
               THEN <<>>
               ELSE <<":">> \o l.target_name.name
          ELSE <<"/", ".", ".", ".">>)

\* impl Display for Label
Display(l) ==
    <<"/", "/">> \o Join(l.path_components, <<"/">>)
      \o (IF l.target_name.kind = "Name"
          THEN <<":">> \o l.target_name.name
          ELSE <<"/", ".", ".", ".">>)

\* a split that skips empty segments
PathComponentsSkipEmpty(label) ==
    SelectSeq(Split(label, "/"), LAMBDA seg : seg # <<>>)

\* label.split('/').map(|s| s.to_string()).collect()
PathComponents(label) == Split(label, "/")

\* a parser that pushes the last component back only when a name was written
FromStrNoPush(s) ==
    LET sp == SplitOnce(s, <<"/", "/">>)
        external_package ==
            IF ~sp.found THEN None
            ELSE IF sp.before = <<>> THEN None
            ELSE Some(sp.before)
        label == IF sp.found THEN sp.after ELSE s
        path_components == PathComponents(label)
    IN IF Len(path_components) = 0 THEN ErrLabel("NoTargetName")
       ELSE LET target_name == path_components[Len(path_components)]
                popped == Front(path_components)
            IN IF target_name = <<".", ".", ".">>
               THEN OkLabel(Label(external_package, popped, Ellipsis))
               ELSE LET c == SplitOnce(target_name, <<":">>)
                        last_component == IF c.found THEN c.before ELSE target_name
                        name == IF c.found THEN c.after ELSE target_name
                    IN OkLabel(Label(external_package,
                                     IF c.found THEN Append(popped, last_component) ELSE popped,
                                     Name(name)))

\* a parser that takes every last segment ending in "..." for the ellipsis
FromStrEndsWith(s) ==
    LET sp == SplitOnce(s, <<"/", "/">>)
        external_package ==
            IF ~sp.found THEN None
            ELSE IF sp.before = <<>> THEN None
            ELSE Some(sp.before)
        label == IF sp.found THEN sp.after ELSE s
        path_components == PathComponents(label)
    IN IF Len(path_components) = 0 THEN ErrLabel("NoTargetName")
       ELSE LET target_name == path_components[Len(path_components)]
                popped == Front(path_components)
            IN IF /\ Len(target_name) >= 3
                  /\ SubSeq(target_name, Len(target_name) - 2, Len(target_name))
                        = <<".", ".", ".">>
               THEN OkLabel(Label(external_package, popped, Ellipsis))
               ELSE LET c == SplitOnce(target_name, <<":">>)
                        last_component == IF c.found THEN c.before ELSE target_name
                        name == IF c.found THEN c.after ELSE target_name
                    IN OkLabel(Label(external_package,
                                     Append(popped, last_component),
                                     Name(name)))

\* a parser that takes the empty prefix of "//" for an external repository
FromStrEmptyRepository(s) ==
    LET sp == SplitOnce(s, <<"/", "/">>)
        external_package ==
            IF ~sp.found THEN None
            ELSE Some(sp.before)
        label == IF sp.found THEN sp.after ELSE s
        path_components == PathComponents(label)
    IN IF Len(path_components) = 0 THEN ErrLabel("NoTargetName")
       ELSE LET target_name == path_components[Len(path_components)]
                popped == Front(path_components)
            IN IF target_name = <<".", ".", ".">>
               THEN OkLabel(Label(external_package, popped, Ellipsis))
               ELSE LET c == SplitOnce(target_name, <<":">>)
                        last_component == IF c.found THEN c.before ELSE target_name
                        name == IF c.found THEN c.after ELSE target_name
                    IN OkLabel(Label(external_package,
                                     Append(popped, last_component),
                                     Name(name)))

\* impl FromStr for Label
FromStr(s) ==
    LET sp == SplitOnce(s, <<"/", "/">>)
        external_package ==
            IF ~sp.found THEN None
            ELSE IF sp.before = <<>> THEN None
            ELSE Some(sp.before)
        label == IF sp.found THEN sp.after ELSE s
        path_components == PathComponents(label)
    IN IF Len(path_components) = 0 THEN ErrLabel("NoTargetName")
       ELSE LET target_name == path_components[Len(path_components)]
                popped == Front(path_components)
            IN IF target_name = <<".", ".", ".">>
               THEN OkLabel(Label(external_package, popped, Ellipsis))
               ELSE LET c == SplitOnce(target_name, <<":">>)
                        last_component == IF c.found THEN c.before ELSE target_name
                        name == IF c.found THEN c.after ELSE target_name
                    IN OkLabel(Label(external_package,
                                     Append(popped, last_component),
                                     Name(name)))

----------------------------------------------------------------------------
(* Inputs of the label pipeline *)

Components == {<<"a">>, <<"b">>}

ComponentLists == UNION {[1..k -> Components] : k \in 0..MaxComps}

ExternalRepositories == {None, Some(<<"@", "a">>)}

TargetNames == {Ellipsis, Name(<<"a">>), Name(<<"b">>)}

Labels == {Label(e, c, t) : e \in ExternalRepositories, c \in ComponentLists,
                             t \in TargetNames}

NoResult == ErrLabel("unset")

----------------------------------------------------------------------------
(* Coordinate (coordinate.rs) *)

Bazel == <<"b", "a", "z", "e", "l">>
Directory == <<"d", "i", "r", "e", "c", "t", "o", "r", "y">>
Pants == <<"p", "a", "n", "t", "s">>

\* Result<Coordinate, CoordinateError>: kind is the variant of the value
\* (Bazel, Directory, Pants) or of the error
CoordBazel(l) == [ok |-> TRUE, kind |-> "Bazel", label |-> l, text |-> <<>>]
CoordDirectory(t) == [ok |-> TRUE, kind |-> "Directory", label |-> NoLabel, text |-> t]
CoordPants(t) == [ok |-> TRUE, kind |-> "Pants", label |-> NoLabel, text |-> t]
UnsupportedScheme(t) ==
    [ok |-> FALSE, kind |-> "UnsupportedScheme", label |-> NoLabel, text |-> t]
TokenizationError ==
    [ok |-> FALSE, kind |-> "TokenizationError", label |-> NoLabel, text |-> <<>>]
LabelError(e) ==
    [ok |-> FALSE, kind |-> "LabelError", label |-> NoLabel, text |-> <<e>>]

NoCoord == [ok |-> FALSE, kind |-> "unset", label |-> NoLabel, text |-> <<>>]

\* a split at the last ':' instead of the first
CoordinateSplitLast(value) == RSplitOnce(value, <<":">>)

\* the split of impl TryFrom<&str> for Coordinate
CoordinateSplit(value) == SplitOnce(value, <<":">>)

\* an empty payload is reported as a tokenization failure
CoordinateTryFromNoPayload(value) ==
    LET sp == CoordinateSplit(value)
        prefix == sp.before
        rest == sp.after
    IN IF ~sp.found \/ rest = <<>> THEN TokenizationError
       ELSE IF EqIgnoreAsciiCase(prefix, Bazel)
            THEN LET label == FromStr(rest)
                 IN IF label.ok THEN CoordBazel(label.label)
                    ELSE LabelError(label.err)
       ELSE IF EqIgnoreAsciiCase(prefix, Directory) THEN CoordDirectory(rest)
       ELSE IF EqIgnoreAsciiCase(prefix, Pants) THEN CoordPants(rest)
       ELSE UnsupportedScheme(prefix)

\* the unsupported scheme is reported in lower case, not as written
CoordinateTryFromLowercased(value) ==
    LET sp == CoordinateSplit(value)
        prefix == sp.before
        rest == sp.after
    IN IF ~sp.found THEN TokenizationError
       ELSE IF EqIgnoreAsciiCase(prefix, Bazel)
            THEN LET label == FromStr(rest)
                 IN IF label.ok THEN CoordBazel(label.label)
                    ELSE LabelError(label.err)
       ELSE IF EqIgnoreAsciiCase(prefix, Directory) THEN CoordDirectory(rest)
       ELSE IF EqIgnoreAsciiCase(prefix, Pants) THEN CoordPants(rest)
       ELSE UnsupportedScheme([i \in 1..Len(prefix) |-> ToAsciiLower(prefix[i])])

\* impl TryFrom<&str> for Coordinate
CoordinateTryFrom(value) ==
    LET sp == CoordinateSplit(value)
        prefix == sp.before
        rest == sp.after
    IN IF ~sp.found THEN TokenizationError
       ELSE IF EqIgnoreAsciiCase(prefix, Bazel)
            THEN LET label == FromStr(rest)
                 IN IF label.ok THEN CoordBazel(label.label)
                    ELSE LabelError(label.err)
       ELSE IF EqIgnoreAsciiCase(prefix, Directory) THEN CoordDirectory(rest)
       ELSE IF EqIgnoreAsciiCase(prefix, Pants) THEN CoordPants(rest)
       ELSE UnsupportedScheme(prefix)

\* what comes before the payload in the inputs drawn: the three schemes in
\* several letter cases, near misses and the empty prefix
Heads == {Bazel, <<"B", "A", "Z", "E", "L">>, <<"B", "a", "z", "e", "L">>,
          Directory, <<"D", "i", "r", "e", "c", "t", "o", "r", "Y">>,
          Pants, <<"P", "A", "N", "T", "S">>,
          <<"b", "o", "g", "u", "s">>, <<"B", "o", "g", "u", "S">>,
          <<"b", "a", "z", "e">>, <<>>}

CoordinateInputs == {h \o t : h \in Heads, t \in StringsUpTo(MaxTail)}

----------------------------------------------------------------------------
(* Initial values of the three groups of variables *)

LabelIdle ==
    /\ lphase = "idle" /\ lorigin = "none" /\ lstr = <<>>
    /\ lab = NoResult /\ shown = <<>> /\ lab2 = NoResult /\ shown2 = <<>>

CoordIdle == cphase = "idle" /\ cinput = <<>> /\ cres = NoCoord

----------------------------------------------------------------------------
(* The label pipeline: parse, display, parse again, display again *)

LabelInit ==
    /\ lab2 = NoResult /\ shown = <<>> /\ shown2 = <<>>
    /\ \/ /\ lorigin = "str" /\ lphase = "str"
          /\ lstr \in StringsUpTo(MaxLen)
          /\ lab = NoResult
       \/ /\ lorigin = "label" /\ lphase = "parsed"
          /\ lstr = <<>>
          /\ lab \in {OkLabel(l) : l \in Labels}

\* s.parse::<Label>()
LabelParse ==
    /\ lphase = "str"
    /\ lab' = FromStr(lstr)
    /\ lphase' = "parsed"
    /\ UNCHANGED <<lorigin, lstr, shown, lab2, shown2, cvars, pvars, svars, mvars, gvars>>

\* format!("{}", label)
LabelDisplay ==
    /\ lphase = "parsed" /\ lab.ok
    /\ shown' = Display(lab.label)
    /\ lphase' = "shown"
    /\ UNCHANGED <<lorigin, lstr, lab, lab2, shown2, cvars, pvars, svars, mvars, gvars>>

\* format!("{}", label).parse::<Label>()
LabelReparse ==
    /\ lphase = "shown"
    /\ lab2' = FromStr(shown)
    /\ lphase' = "reparsed"
    /\ UNCHANGED <<lorigin, lstr, lab, shown, shown2, cvars, pvars, svars, mvars, gvars>>

LabelRedisplay ==
    /\ lphase = "reparsed" /\ lab2.ok
    /\ shown2' = Display(lab2.label)
    /\ lphase' = "reshown"
    /\ UNCHANGED <<lorigin, lstr, lab, shown, lab2, cvars, pvars, svars, mvars, gvars>>

----------------------------------------------------------------------------
(* Coordinate parsing *)

CoordInit == cphase = "input" /\ cinput \in CoordinateInputs /\ cres = NoCoord

CoordParse ==
    /\ cphase = "input"
    /\ cres' = CoordinateTryFrom(cinput)
    /\ cphase' = "parsed"
    /\ UNCHANGED <<cinput, lvars, pvars, svars, mvars, gvars>>

----------------------------------------------------------------------------
(* CoordinateSet (coordinate.rs) *)

\* Result<CoordinateSet, CoordinateError>
OkSet(underlying, uniform) ==
    [ok |-> TRUE, underlying |-> underlying, uniform |-> uniform, err |-> NoCoord]
ErrSet(e) == [ok |-> FALSE, underlying |-> {}, uniform |-> FALSE, err |-> e]

NoSet == ErrSet(NoCoord)

NoResolution == [kind |-> "unset", paths |-> {}, package_deps |-> {}]

\* uniformity decided by the number of members instead of their variants
DetermineUniformityBySize(set) == Cardinality(set) < 2

\* CoordinateSet::determine_uniformity
DetermineUniformity(set) ==
    LET count_by_type ==
            <<Cardinality({c \in set : c.kind = "Bazel"}),
              Cardinality({c \in set : c.kind = "Directory"}),
              Cardinality({c \in set : c.kind = "Pants"})>>
        distinct_types_in_counts ==
            Cardinality({i \in 1..3 : count_by_type[i] > 0})
    IN distinct_types_in_counts < 2

\* the strings the lists are drawn from: two spellings of one bazel label,
\* an ellipsis label, two directories, a pants target, two unsupported
\* schemes, a string without ':' and the empty string
ListPool ==
    {Bazel \o <<":", "/", "/", "a">>,
     <<"B", "A", "Z", "E", "L">> \o <<":", "a", ":", "a">>,
     Bazel \o <<":", "/", "/", "a", "/", ".", ".", ".">>,
     Directory \o <<":", "a">>,
     Directory \o <<":", "a", "/">>,
     Pants \o <<":", "a">>,
     <<"b", "o", "g", "u", "s">> \o <<":", "a">>,
     <<"B", "o", "g", "u", "S">> \o <<":", "a", ":", "a">>,
     <<"a">>,
     <<>>}

ListInputs ==
    UNION {[1..k -> ListPool] : k \in 0..MaxList}
        \cup {<<v>> : v \in CoordinateInputs}

PathAlphabet == {"a", "/", "."}

DirectoryPayloads == UNION {[1..k -> PathAlphabet] : k \in 0..MaxDir}

\* the coordinates the hash sets are drawn from
CoordinatePool ==
    {CoordDirectory(d) : d \in DirectoryPayloads}
        \cup {CoordBazel(Label(None, << <<"a">> >>, Name(<<"a">>))),
              CoordBazel(Label(None, << <<"a">> >>, Ellipsis)),
              CoordPants(<<"a">>)}

SetInputs ==
    UNION {{{f[i] : i \in 1..k} : f \in [1..k -> CoordinatePool]} : k \in 0..MaxSet}

SetIdle ==
    /\ sphase = "idle" /\ slist = <<>> /\ sidx = 0 /\ selems = <<>>
    /\ sunder = {} /\ sset = NoSet /\ rres = NoResolution

SetInit ==
    /\ sidx = 0 /\ selems = <<>> /\ sset = NoSet /\ rres = NoResolution
    /\ \/ sphase = "list" /\ slist \in ListInputs /\ sunder = {}
       \/ sphase = "set" /\ slist = <<>> /\ sunder \in SetInputs

\* a loop that skips the strings that fail to parse
SetTryFromStepSkipping ==
    /\ sphase = "list" /\ sidx < Len(slist)
    /\ LET r == CoordinateTryFrom(slist[sidx + 1])
       IN /\ selems' = Append(selems, r)
          /\ sidx' = sidx + 1
          /\ sunder' = IF r.ok THEN sunder \cup {r} ELSE sunder
          /\ UNCHANGED <<sphase, sset>>
    /\ UNCHANGED <<slist, rres, lvars, cvars, pvars, mvars, gvars>>

\* impl TryFrom<&[String]> for CoordinateSet: one turn of the loop
SetTryFromStep ==
    /\ sphase = "list" /\ sidx < Len(slist)
    /\ LET r == CoordinateTryFrom(slist[sidx + 1])
       IN /\ selems' = Append(selems, r)
          /\ sidx' = sidx + 1
          /\ IF r.ok
             THEN /\ sunder' = sunder \cup {r}
                  /\ UNCHANGED <<sphase, sset>>
             ELSE /\ sphase' = "failed"
                  /\ sset' = ErrSet(r)
                  /\ UNCHANGED sunder
    /\ UNCHANGED <<slist, rres, lvars, cvars, pvars, mvars, gvars>>

\* impl TryFrom<&[String]> for CoordinateSet: after the loop
SetTryFromFinish ==
    /\ sphase = "list" /\ sidx = Len(slist)
    /\ sset' = OkSet(sunder, DetermineUniformity(sunder))
    /\ sphase' = "built"
    /\ UNCHANGED <<slist, sidx, selems, sunder, rres, lvars, cvars, pvars, mvars, gvars>>

\* impl From<HashSet<Coordinate>> for CoordinateSet
SetFrom ==
    /\ sphase = "set"
    /\ sset' = OkSet(sunder, DetermineUniformity(sunder))
    /\ sphase' = "built"
    /\ UNCHANGED <<slist, sidx, selems, sunder, rres, lvars, cvars, pvars, mvars, gvars>>

----------------------------------------------------------------------------
(* DirectoryResolver (directory_resolver.rs) *)

\* PathBuf::from(s), as far as PathBuf's Eq, Ord and Hash see it: the
\* components of the path. Empty segments are skipped, and so is "."
\* unless it opens a path that has no root.
PathBufFrom(s) ==
    LET segs == Split(s, "/")
        has_root == s # <<>> /\ s[1] = "/"
        kept == {i \in 1..Len(segs) :
                    /\ segs[i] # <<>>
                    /\ segs[i] = <<".">> => (i = 1 /\ ~has_root)}
        nth(k) == CHOOSE i \in kept : Cardinality({j \in kept : j < i}) = k - 1
    IN [root |-> has_root,
        comps |-> [k \in 1..Cardinality(kept) |-> segs[nth(k)]]]

\* DependencyKey::Path(directory.into())
DependencyKeyPath(d) == [kind |-> "Path", path |-> PathBufFrom(d)]

\* DependencyValue::Path { path: directory.into() }
DependencyValuePath(d) == [kind |-> "Path", path |-> PathBufFrom(d)]

Panicked == [kind |-> "Panic", paths |-> {}, package_deps |-> {}]

\* a resolver that leaves the repository root out of the paths
ResolveSkippingRoot(set) ==
    IF \E target \in set : target.kind # "Directory" THEN Panicked
    ELSE [kind |-> "Ok",
          paths |-> {PathBufFrom(target.text) : target \in set}
                       \ {PathBufFrom(<<>>)},
          package_deps |-> {<<DependencyKeyPath(target.text),
                              DependencyValuePath(target.text)>> : target \in set}]

\* a resolver that passes over the targets of the other resolvers
ResolveFiltering(set) ==
    [kind |-> "Ok",
     paths |-> {PathBufFrom(target.text) :
                   target \in {t \in set : t.kind = "Directory"}},
     package_deps |-> {<<DependencyKeyPath(target.text),
                         DependencyValuePath(target.text)>> :
                          target \in {t \in set : t.kind = "Directory"}}]

\* DirectoryResolver::resolve: a BTreeSet of paths and a BTreeMap of
\* dependencies, or the panic of unreachable!()
Resolver(set) ==
    IF \E target \in set : target.kind # "Directory" THEN Panicked
    ELSE [kind |-> "Ok",
          paths |-> {PathBufFrom(target.text) : target \in set},
          package_deps |-> {<<DependencyKeyPath(target.text),
                              DependencyValuePath(target.text)>> : target \in set}]

\* resolve(request, ..) on a request carrying the coordinate set
DirectoryResolve ==
    /\ sphase = "built"
    /\ rres' = Resolver(sset.underlying)
    /\ sphase' = "resolved"
    /\ UNCHANGED <<slist, sidx, selems, sunder, sset, lvars, cvars, pvars, mvars, gvars>>

----------------------------------------------------------------------------
(* The repository and the collaborators of main.rs *)

Procs == 1..NumProcs

Subcommands == {"Sync", "Add", "Remove", "Status", "Projects", "Upgrade"}

Targets == {"t1", "t2"}

Arguments == {{"t1"}, {"t2"}}

\* the resolver output for a selection: the paths its targets own
PathOf(t) == IF t = "t1" THEN "p1" ELSE "p2"
Resolve(sel) == {PathOf(t) : t \in sel}

\* focus_migrations::production::is_upgrade_required: Ok(true) iff the
\* compiled version exceeds the on-disk version, or an error
IsUpgradeRequired ==
    {"failed", IF RequiredVersion > diskVersion THEN "yes" ELSE "no"}

\* paths::assert_focused_repo
AssertFocusedRepo == focused

\* operation::ensure_clean::run: Ok when the working trees are clean, Err
\* when they are not
EnsureClean == {"clean", "dirty"}

\* std::env::current_dir(): the working directory, or an error
CurrentDir == {"Ok", "CurrentDirFailed"}

\* LockFile::new: an exclusive, non-blocking lock; "Busy" when it is held
LockFileNew(p) ==
    IF lockHolders # {} THEN {"Busy"} ELSE {"Locked", "IoError"}

\* impl Drop for LockFile: the lock is released when the guard goes out of scope
LockFileDrop(p) == lockHolders \ {p}

----------------------------------------------------------------------------
(* main.rs: run_subcommand *)

ProcIdle ==
    /\ pc = [p \in Procs |-> "idle"]
    /\ cmd = [p \in Procs |-> "none"]
    /\ arg = [p \in Procs |-> {}]
    /\ result = [p \in Procs |-> "none"]
    /\ upgradeSeen = [p \in Procs |-> "none"]
    /\ snap = [p \in Procs |-> {}]
    /\ cleanSeen = [p \in Procs |-> "none"]
    /\ runs = 0
    /\ lockHolders = {}

RepoInit ==
    /\ focused \in BOOLEAN
    /\ diskVersion \in 0..RequiredVersion
    /\ selection \in SUBSET Targets
    /\ sparse = Resolve(selection)
    /\ ~focused => diskVersion = 0 /\ selection = {}

RepoIdle ==
    focused = FALSE /\ diskVersion = 0 /\ selection = {} /\ sparse = {}

\* a focus process is started with a subcommand (main, FocusOpts::parse)
Invoke(p) ==
    /\ pc[p] \in {"idle", "done"}
    /\ runs < MaxRuns
    /\ runs' = runs + 1
    /\ \E c \in Subcommands :
         /\ cmd' = [cmd EXCEPT ![p] = c]
         /\ \E a \in (IF c \in {"Add", "Remove"} THEN Arguments ELSE {{}}) :
              arg' = [arg EXCEPT ![p] = a]
    /\ pc' = [pc EXCEPT ![p] = "start"]
    /\ result' = [result EXCEPT ![p] = "none"]
    /\ upgradeSeen' = [upgradeSeen EXCEPT ![p] = "none"]
    /\ snap' = [snap EXCEPT ![p] = {}]
    /\ cleanSeen' = [cleanSeen EXCEPT ![p] = "none"]
    /\ UNCHANGED <<lockHolders, focused, diskVersion, selection, sparse>>
    /\ UNCHANGED <<lvars, cvars, svars, mvars, gvars>>

\* a return that leaves the lock file guard alive (mem::forget, process::exit)
ReturnLeak(p, res) ==
    /\ pc' = [pc EXCEPT ![p] = "done"]
    /\ result' = [result EXCEPT ![p] = res]
    /\ UNCHANGED lockHolders

\* run_subcommand returns res: the locals of the match arm, _lock_file among
\* them, go out of scope
Return(p, res) ==
    /\ pc' = [pc EXCEPT ![p] = "done"]
    /\ result' = [result EXCEPT ![p] = res]
    /\ lockHolders' = LockFileDrop(p)

\* let _ = hold_lock_file(..)?: the guard is dropped at once
HoldLockFileDropped(p, from, to) ==
    /\ pc[p] = from
    /\ \E r \in LockFileNew(p) :
         IF r = "Locked"
         THEN /\ pc' = [pc EXCEPT ![p] = to]
              /\ UNCHANGED <<result, lockHolders>>
         ELSE Return(p, r)
    /\ UNCHANGED <<cmd, arg, upgradeSeen, snap, runs, focused, diskVersion,
                   selection, sparse>>
    /\ UNCHANGED <<cleanSeen, lvars, cvars, svars, mvars, gvars>>

\* let _lock_file = hold_lock_file(..).ok(): a failed acquisition is ignored
HoldLockFileIgnored(p, from, to) ==
    /\ pc[p] = from
    /\ \E r \in LockFileNew(p) :
         /\ lockHolders' = IF r = "Locked" THEN lockHolders \cup {p} ELSE lockHolders
         /\ pc' = [pc EXCEPT ![p] = to]
         /\ UNCHANGED result
    /\ UNCHANGED <<cmd, arg, upgradeSeen, snap, runs, focused, diskVersion,
                   selection, sparse>>
    /\ UNCHANGED <<cleanSeen, lvars, cvars, svars, mvars, gvars>>

\* let _lock_file = hold_lock_file(&sparse_repo)?;
HoldLockFile(p, from, to) ==
    /\ pc[p] = from
    /\ \E r \in LockFileNew(p) :
         IF r = "Locked"
         THEN /\ lockHolders' = lockHolders \cup {p}
              /\ pc' = [pc EXCEPT ![p] = to]
              /\ UNCHANGED result
         ELSE Return(p, r)
    /\ UNCHANGED <<cmd, arg, upgradeSeen, snap, runs, focused, diskVersion,
                   selection, sparse>>
    /\ UNCHANGED <<cleanSeen, lvars, cvars, svars, mvars, gvars>>

\* the answer of is_upgrade_required is not acted on
SyncCompatibilityIgnored(p) ==
    /\ pc[p] = "start" /\ cmd[p] = "Sync"
    /\ \E answer \in IsUpgradeRequired :
         /\ upgradeSeen' = [upgradeSeen EXCEPT ![p] = answer]
         /\ pc' = [pc EXCEPT ![p] = "sync_lock"]
         /\ UNCHANGED <<result, lockHolders>>
    /\ UNCHANGED <<cmd, arg, snap, runs, focused, diskVersion, selection, sparse>>
    /\ UNCHANGED <<cleanSeen, lvars, cvars, svars, mvars, gvars>>

\* the lock is taken before the compatibility check
SyncCompatibilityUnderLock(p) ==
    /\ pc[p] = "start" /\ cmd[p] = "Sync"
    /\ lockHolders = {}
    /\ \E answer \in IsUpgradeRequired :
         /\ upgradeSeen' = [upgradeSeen EXCEPT ![p] = answer]
         /\ IF answer = "no"
            THEN /\ pc' = [pc EXCEPT ![p] = "sync_run"]
                 /\ lockHolders' = {p}
                 /\ UNCHANGED result
            ELSE Return(p, IF answer = "yes" THEN "UpgradeRequired"
                                             ELSE "UpgradeCheckFailed")
    /\ UNCHANGED <<cmd, arg, snap, runs, focused, diskVersion, selection, sparse>>
    /\ UNCHANGED <<cleanSeen, lvars, cvars, svars, mvars, gvars>>

\* Subcommand::Sync: ensure_repo_compatibility(&sparse_repo)?
SyncEnsureRepoCompatibility(p) ==
    /\ pc[p] = "start" /\ cmd[p] = "Sync"
    /\ \E answer \in IsUpgradeRequired :
         /\ upgradeSeen' = [upgradeSeen EXCEPT ![p] = answer]
         /\ IF answer = "no"
            THEN /\ pc' = [pc EXCEPT ![p] = "sync_lock"]
                 /\ UNCHANGED <<result, lockHolders>>
            ELSE Return(p, IF answer = "yes" THEN "UpgradeRequired"
                                             ELSE "UpgradeCheckFailed")
    /\ UNCHANGED <<cmd, arg, snap, runs, focused, diskVersion, selection, sparse>>
    /\ UNCHANGED <<cleanSeen, lvars, cvars, svars, mvars, gvars>>

\* Subcommand::Sync: let _lock_file = hold_lock_file(&sparse_repo)?
SyncHoldLockFile(p) == HoldLockFile(p, "sync_lock", "sync_run")

\* Subcommand::Sync: operation::sync::run is entered and loads the selection
SyncRunLoad(p) ==
    /\ pc[p] = "sync_run"
    /\ pc' = [pc EXCEPT ![p] = "syncing"]
    /\ snap' = [snap EXCEPT ![p] = selection]
    /\ UNCHANGED <<cmd, arg, result, upgradeSeen, runs, lockHolders, focused,
                   diskVersion, selection, sparse>>
    /\ UNCHANGED <<cleanSeen, lvars, cvars, svars, mvars, gvars>>

\* Subcommand::Sync: operation::sync::run(..)? returns; Ok(ExitCode(0))
SyncRunFinish(p) ==
    /\ pc[p] = "syncing"
    /\ \/ /\ sparse' = Resolve(snap[p])
          /\ Return(p, "Ok")
       \/ /\ UNCHANGED sparse
          /\ Return(p, "SyncFailed")
    /\ UNCHANGED <<cmd, arg, upgradeSeen, snap, runs, focused, diskVersion,
                   selection>>
    /\ UNCHANGED <<cleanSeen, lvars, cvars, svars, mvars, gvars>>

\* Status and Projects go on to the selection without the assertion
SelectionAssertFocusedRepoSkipped(p) ==
    /\ pc[p] = "start" /\ cmd[p] \in {"Add", "Remove", "Status", "Projects"}
    /\ \E dir \in CurrentDir :
         IF dir # "Ok" THEN Return(p, dir)
         ELSE IF cmd[p] \in {"Status", "Projects"}
         THEN /\ pc' = [pc EXCEPT ![p] = "reading"]
              /\ UNCHANGED <<result, lockHolders>>
         ELSE IF AssertFocusedRepo
         THEN /\ pc' = [pc EXCEPT ![p] = "sel_lock"]
              /\ UNCHANGED <<result, lockHolders>>
         ELSE Return(p, "NotFocused")
    /\ UNCHANGED <<cmd, arg, upgradeSeen, snap, runs, focused, diskVersion,
                   selection, sparse>>
    /\ UNCHANGED <<cleanSeen, lvars, cvars, svars, mvars, gvars>>

\* Subcommand::Add / Remove / Status / Projects:
\* let sparse_repo = std::env::current_dir()?;
\* paths::assert_focused_repo(&sparse_repo)?
SelectionAssertFocusedRepo(p) ==
    /\ pc[p] = "start" /\ cmd[p] \in {"Add", "Remove", "Status", "Projects"}
    /\ \E dir \in CurrentDir :
         IF dir # "Ok" THEN Return(p, dir)
         ELSE IF AssertFocusedRepo
         THEN /\ pc' = [pc EXCEPT ![p] =
                           IF cmd[p] \in {"Add", "Remove"} THEN "sel_lock"
                                                           ELSE "reading"]
              /\ UNCHANGED <<result, lockHolders>>
         ELSE Return(p, "NotFocused")
    /\ UNCHANGED <<cmd, arg, upgradeSeen, snap, runs, focused, diskVersion,
                   selection, sparse>>
    /\ UNCHANGED <<cleanSeen, lvars, cvars, svars, mvars, gvars>>

\* Subcommand::Add / Remove: let _lock_file = hold_lock_file(&sparse_repo)?
SelectionHoldLockFile(p) == HoldLockFile(p, "sel_lock", "sel_clean")

\* the answer of ensure_clean is not acted on
SelectionEnsureCleanIgnored(p) ==
    /\ pc[p] = "sel_clean"
    /\ \E answer \in EnsureClean :
         /\ cleanSeen' = [cleanSeen EXCEPT ![p] = answer]
         /\ pc' = [pc EXCEPT ![p] = "selecting"]
         /\ UNCHANGED <<result, lockHolders>>
    /\ UNCHANGED <<cmd, arg, upgradeSeen, snap, runs, focused, diskVersion,
                   selection, sparse>>
    /\ UNCHANGED <<lvars, cvars, svars, mvars, gvars>>

\* Subcommand::Add / Remove: operation::ensure_clean::run(..)
\*     .context("Ensuring working trees are clean failed")?
SelectionEnsureClean(p) ==
    /\ pc[p] = "sel_clean"
    /\ \E answer \in EnsureClean :
         /\ cleanSeen' = [cleanSeen EXCEPT ![p] = answer]
         /\ IF answer = "clean"
            THEN /\ pc' = [pc EXCEPT ![p] = "selecting"]
                 /\ UNCHANGED <<result, lockHolders>>
            ELSE Return(p, "DirtyWorkingTree")
    /\ UNCHANGED <<cmd, arg, upgradeSeen, snap, runs, focused, diskVersion,
                   selection, sparse>>
    /\ UNCHANGED <<lvars, cvars, svars, mvars, gvars>>

\* Subcommand::Add / Remove: operation::selection::add / remove(..)? returns
SelectionMutate(p) ==
    /\ pc[p] = "selecting"
    /\ \/ /\ selection' = IF cmd[p] = "Add" THEN selection \cup arg[p]
                                            ELSE selection \ arg[p]
          /\ sparse' = Resolve(selection')
          /\ Return(p, "Ok")
       \/ /\ UNCHANGED <<selection, sparse>>
          /\ Return(p, "SelectionFailed")
    /\ UNCHANGED <<cmd, arg, upgradeSeen, snap, runs, focused, diskVersion>>
    /\ UNCHANGED <<cleanSeen, lvars, cvars, svars, mvars, gvars>>

\* Subcommand::Status / Projects: operation::selection::status /
\* list_projects(..)? returns; Ok(ExitCode(0))
SelectionRead(p) ==
    /\ pc[p] = "reading"
    /\ \/ Return(p, "Ok")
       \/ Return(p, "SelectionFailed")
    /\ UNCHANGED <<cmd, arg, upgradeSeen, snap, runs, focused, diskVersion,
                   selection, sparse>>
    /\ UNCHANGED <<cleanSeen, lvars, cvars, svars, mvars, gvars>>

\* Subcommand::Upgrade: perform_pending_migrations(&repo) is entered
UpgradeBegin(p) ==
    /\ pc[p] = "start" /\ cmd[p] = "Upgrade"
    /\ pc' = [pc EXCEPT ![p] = "migrating"]
    /\ UNCHANGED <<cmd, arg, result, upgradeSeen, snap, runs, lockHolders,
                   focused, diskVersion, selection, sparse>>
    /\ UNCHANGED <<cleanSeen, lvars, cvars, svars, mvars, gvars>>

\* perform_pending_migrations: one registered step, the new version is written
UpgradeStep(p) ==
    /\ pc[p] = "migrating"
    /\ diskVersion < RequiredVersion
    /\ diskVersion' = diskVersion + 1
    /\ UNCHANGED <<pc, cmd, arg, result, upgradeSeen, snap, runs, lockHolders,
                   focused, selection, sparse>>
    /\ UNCHANGED <<cleanSeen, lvars, cvars, svars, mvars, gvars>>

\* Subcommand::Upgrade: perform_pending_migrations(..)? returns; Ok(ExitCode(0))
UpgradeFinish(p) ==
    /\ pc[p] = "migrating"
    /\ \/ /\ diskVersion = RequiredVersion
          /\ Return(p, "Ok")
       \/ Return(p, "UpgradeFailed")
    /\ UNCHANGED <<cmd, arg, upgradeSeen, snap, runs, focused, diskVersion,
                   selection, sparse>>
    /\ UNCHANGED <<cleanSeen, lvars, cvars, svars, mvars, gvars>>

----------------------------------------------------------------------------
(* git_helper.rs *)

\* no exit code yet: the child or the process has not ended, and no
\* invocation message was written
NoCode == -1

\* Result<String> / Result<()> of a helper
OkReturn(v) == [kind |-> "Ok", val |-> v]
ErrReturn == [kind |-> "Err", val |-> <<>>]
NoReturn == [kind |-> "none", val |-> <<>>]

NoCall == [fn |-> "none", repo_path |-> "none", key |-> "none"]

\* the helpers and their arguments; key stands for the args of
\* run_git_command_consuming_stdout
GitCalls ==
    [fn : {"write_config", "read_config", "run_git_command_consuming_stdout"},
     repo_path : {"r1", "r2"}, key : {"k1", "k2"}]

\* what the capture file of the sandbox command holds before any child ran
CapturedBefore == {<<>>, <<"p">>}

\* what git prints on stdout: it depends on the directory, on the arguments
\* and on whether git succeeded
GitOutput(call, status) ==
    IF status = 0 THEN <<call.repo_path, call.key, " ">> ELSE <<" ", "e">>

\* str::trim
RECURSIVE TrimStart(_)
TrimStart(t) == IF t # <<>> /\ t[1] = " " THEN TrimStart(Tail(t)) ELSE t

RECURSIVE TrimEnd(_)
TrimEnd(t) ==
    IF t # <<>> /\ t[Len(t)] = " " THEN TrimEnd(SubSeq(t, 1, Len(t) - 1)) ELSE t

Trim(t) == TrimEnd(TrimStart(t))

GitIdle ==
    /\ gpc = "idle" /\ gcall = NoCall /\ gstdout = <<>> /\ gspawned = 0
    /\ gstatus = NoCode /\ gret = NoReturn

GitInit ==
    /\ gpc = "git_command" /\ gcall \in GitCalls /\ gstdout \in CapturedBefore
    /\ gspawned = 0 /\ gstatus = NoCode /\ gret = NoReturn

\* the helper returns r
GitReturn(r) ==
    /\ gret' = r
    /\ gpc' = "returned"

\* Command::status / the driver spawn the child: it runs, writes its stdout
\* to the capture file and exits with a status
GitSpawn(status) ==
    /\ gspawned' = gspawned + 1
    /\ gstatus' = status
    /\ gstdout' = gstdout \o GitOutput(gcall, status)

\* let (mut cmd, scmd) = git_command(&sandbox)?;
GitCommand ==
    /\ gpc = "git_command"
    /\ \/ /\ gpc' = gcall.fn
          /\ UNCHANGED gret
       \/ GitReturn(ErrReturn)
    /\ UNCHANGED <<gcall, gstdout, gspawned, gstatus>>
    /\ UNCHANGED <<lvars, cvars, pvars, svars, mvars>>

\* SandboxCommand::ensure_success_or_log: Err when the child cannot be
\* spawned or exits with a non-zero status
EnsureSuccessOrLog(status) == IF status = 0 THEN OkReturn(<<>>) ELSE ErrReturn

\* write_config: scmd.ensure_success_or_log(cmd.., Stderr, "git config").map(|_| ())
WriteConfig ==
    /\ gpc = "write_config"
    /\ \/ /\ GitReturn(ErrReturn)
          /\ UNCHANGED <<gstdout, gspawned, gstatus>>
       \/ \E status \in 0..MaxStatus :
            /\ GitSpawn(status)
            /\ GitReturn(EnsureSuccessOrLog(status))
    /\ UNCHANGED gcall
    /\ UNCHANGED <<lvars, cvars, pvars, svars, mvars>>

\* a read_config that runs `git config --get key` before reading
ReadConfigExecuting ==
    /\ gpc = "read_config"
    /\ \E status \in 0..MaxStatus :
         /\ GitSpawn(status)
         /\ \/ GitReturn(OkReturn(gstdout'))
            \/ GitReturn(ErrReturn)
    /\ UNCHANGED gcall
    /\ UNCHANGED <<lvars, cvars, pvars, svars, mvars>>

\* read_config: scmd.read_to_string(Stdout, &mut output_string)
\*     .with_context(..)?; Ok(output_string)
ReadConfig ==
    /\ gpc = "read_config"
    /\ \/ GitReturn(OkReturn(gstdout))
       \/ GitReturn(ErrReturn)
    /\ UNCHANGED <<gcall, gstdout, gspawned, gstatus>>
    /\ UNCHANGED <<lvars, cvars, pvars, svars, mvars>>

\* run_git_command_consuming_stdout:
\* if let Err(e) = cmd.current_dir(repo).args(args).status() { ..; bail!(..) }
RunGitCommandStatus ==
    /\ gpc = "run_git_command_consuming_stdout"
    /\ \/ /\ GitReturn(ErrReturn)
          /\ UNCHANGED <<gstdout, gspawned, gstatus>>
       \/ \E status \in 0..MaxStatus :
            /\ GitSpawn(status)
            /\ gpc' = "read_to_string"
            /\ UNCHANGED gret
    /\ UNCHANGED gcall
    /\ UNCHANGED <<lvars, cvars, pvars, svars, mvars>>

\* run_git_command_consuming_stdout:
\* scmd.read_to_string(Stdout, &mut stdout_contents)?;
\* Ok(stdout_contents.trim().to_owned())
RunGitCommandRead ==
    /\ gpc = "read_to_string"
    /\ \/ GitReturn(OkReturn(Trim(gstdout)))
       \/ GitReturn(ErrReturn)
    /\ UNCHANGED <<gcall, gstdout, gspawned, gstatus>>
    /\ UNCHANGED <<lvars, cvars, pvars, svars, mvars>>

----------------------------------------------------------------------------
(* main.rs: main_and_drop_locals and main *)

\* Result<ExitCode>
OkExitCode(c) == [kind |-> "Ok", code |-> c]
ErrResult == [kind |-> "Err", code |-> 0]
NoRun == [kind |-> "none", code |-> 0]

\* the arms of run_subcommand that return the ExitCode of their operation
PassThroughSubcommands ==
    {"DetectBuildGraphChanges", "IndexFetch", "IndexGenerate", "IndexGet",
     "IndexHash", "IndexPush", "IndexResolve"}

\* the arms that cannot fail
EventSubcommands == {"EventPostCheckout", "EventPostMerge"}

\* the arms that end in Ok(ExitCode(0)) after operations that can fail
PlainSubcommands ==
    {"Clone", "Sync", "Refs", "Repo", "Add", "Remove", "Status", "Projects",
     "Init", "Maintenance", "GitTrace", "Upgrade", "IndexClear"}

MainSubcommands == PlainSubcommands \cup PassThroughSubcommands \cup EventSubcommands

\* FocusOpts::parse() and FOCUS_NO_SCHEDULE
FocusOpts ==
    [cmd : MainSubcommands, working_directory : BOOLEAN,
     resolution_threads : 0..MaxThreads, no_schedule : BOOLEAN]

NoOpts == [cmd |-> "none", working_directory |-> FALSE,
           resolution_threads |-> 0, no_schedule |-> FALSE]

\* fn run_subcommand: what the arm of options.cmd can return
RunSubcommand(c) ==
    IF c \in EventSubcommands THEN {OkExitCode(0)}
    ELSE IF c \in PassThroughSubcommands
    THEN {ErrResult} \cup {OkExitCode(e) : e \in 0..MaxExitCode}
    ELSE {ErrResult, OkExitCode(0)}

MainIdle ==
    /\ mpc = "idle" /\ mopts = NoOpts /\ mrun = NoRun
    /\ minvocation = NoCode /\ mexit = NoCode

\* let options = FocusOpts::parse();
MainInit ==
    /\ mpc = "set_current_dir" /\ mopts \in FocusOpts /\ mrun = NoRun
    /\ minvocation = NoCode /\ mexit = NoCode

\* a main that ends with success whatever main_and_drop_locals returned
MainErrSwallowed ==
    /\ mpc' = "failed"
    /\ mexit' = 0

\* fn main: main_and_drop_locals()? returns the Err from main, and a main
\* that returns Err ends the process with status 1
MainErr ==
    /\ mpc' = "failed"
    /\ mexit' = 1

\* a step of main_and_drop_locals that is `step?`: go on when it is Ok
MainStep(from, to, outcomes) ==
    /\ mpc = from
    /\ \E ok \in outcomes :
         IF ok THEN mpc' = to /\ UNCHANGED mexit ELSE MainErr
    /\ UNCHANGED <<mopts, mrun, minvocation>>
    /\ UNCHANGED <<lvars, cvars, pvars, svars, gvars>>

\* std::env::set_current_dir(working_directory)?, when one is given
SetCurrentDir ==
    MainStep("set_current_dir", "app",
             IF mopts.working_directory THEN BOOLEAN ELSE {TRUE})

\* App::new(preserve_sandbox, sandbox_name_for_cmd(&options))?
AppNew == MainStep("app", "thread_pool", BOOLEAN)

\* setup_thread_pool(*resolution_threads)?
SetupThreadPool ==
    MainStep("thread_pool", "tracing",
             IF mopts.resolution_threads > 0 THEN BOOLEAN ELSE {TRUE})

\* focus_tracing::init_tracing(..)?
InitTracing == MainStep("tracing", "directories", BOOLEAN)

\* ensure_directories_exist()?
EnsureDirectoriesExist == MainStep("directories", "scheduler", BOOLEAN)

\* setup_maintenance_scheduler(&options)?
SetupMaintenanceScheduler ==
    MainStep("scheduler", "run",
             IF /\ ~mopts.no_schedule
                /\ mopts.cmd \in {"Clone", "Sync", "Add", "Remove", "Init"}
             THEN BOOLEAN ELSE {TRUE})

\* let exit_code = match run_subcommand(app.clone(), options) { .. }
MainRunSubcommand ==
    /\ mpc = "run"
    /\ \E r \in RunSubcommand(mopts.cmd) :
         /\ mrun' = r
         /\ IF r.kind = "Ok"
            THEN /\ minvocation' = 0
                 /\ mpc' = "cleanup"
                 /\ UNCHANGED mexit
            ELSE /\ minvocation' = 1
                 /\ MainErr
    /\ UNCHANGED mopts
    /\ UNCHANGED <<lvars, cvars, pvars, svars, gvars>>

\* sandbox::cleanup::run_with_default()?
SandboxCleanup == MainStep("cleanup", "exit", BOOLEAN)

\* fn main: std::process::exit(exit_code)
MainExit ==
    /\ mpc = "exit"
    /\ mexit' = mrun.code
    /\ mpc' = "exited"
    /\ UNCHANGED <<mopts, mrun, minvocation>>
    /\ UNCHANGED <<lvars, cvars, pvars, svars, gvars>>

----------------------------------------------------------------------------
(* Specifications *)

Init ==
    LabelIdle /\ CoordIdle /\ SetIdle /\ ProcIdle /\ RepoInit /\ MainIdle /\ GitIdle

Next ==
    \E p \in Procs :
        \/ Invoke(p)
        \/ SyncEnsureRepoCompatibility(p)
        \/ SyncHoldLockFile(p)
        \/ SyncRunLoad(p)
        \/ SyncRunFinish(p)
        \/ SelectionAssertFocusedRepo(p)
        \/ SelectionHoldLockFile(p)
        \/ SelectionEnsureClean(p)
        \/ SelectionMutate(p)
        \/ SelectionRead(p)
        \/ UpgradeBegin(p)
        \/ UpgradeStep(p)
        \/ UpgradeFinish(p)

Spec == Init /\ [][Next]_vars

LabelSpecInit ==
    LabelInit /\ CoordIdle /\ SetIdle /\ ProcIdle /\ RepoIdle /\ MainIdle /\ GitIdle

LabelNext ==
    \/ LabelParse
    \/ LabelDisplay
    \/ LabelReparse
    \/ LabelRedisplay

LabelSpec == LabelSpecInit /\ [][LabelNext]_vars

CoordSpecInit ==
    LabelIdle /\ CoordInit /\ SetIdle /\ ProcIdle /\ RepoIdle /\ MainIdle /\ GitIdle

CoordNext == CoordParse

CoordSpec == CoordSpecInit /\ [][CoordNext]_vars

SetSpecInit ==
    LabelIdle /\ CoordIdle /\ SetInit /\ ProcIdle /\ RepoIdle /\ MainIdle /\ GitIdle

SetNext ==
    \/ SetTryFromStep
    \/ SetTryFromFinish
    \/ SetFrom
    \/ DirectoryResolve

SetSpec == SetSpecInit /\ [][SetNext]_vars

MainSpecInit ==
    LabelIdle /\ CoordIdle /\ SetIdle /\ ProcIdle /\ RepoIdle /\ MainInit /\ GitIdle

MainNext ==
    \/ SetCurrentDir
    \/ AppNew
    \/ SetupThreadPool
    \/ InitTracing
    \/ EnsureDirectoriesExist
    \/ SetupMaintenanceScheduler
    \/ MainRunSubcommand
    \/ SandboxCleanup
    \/ MainExit

MainSpec == MainSpecInit /\ [][MainNext]_vars

GitSpecInit ==
    LabelIdle /\ CoordIdle /\ SetIdle /\ ProcIdle /\ RepoIdle /\ MainIdle /\ GitInit

GitNext ==
    \/ GitCommand
    \/ WriteConfig
    \/ ReadConfig
    \/ RunGitCommandStatus
    \/ RunGitCommandRead

GitSpec == GitSpecInit /\ [][GitNext]_vars

----------------------------------------------------------------------------
(* Properties *)

\* the operations the lock protects are in progress
InOperation(p) == pc[p] \in {"syncing", "selecting"}

\* the positions of run_subcommand at which _lock_file is in scope
InLockScope(p) == pc[p] \in {"sync_run", "syncing", "sel_clean", "selecting"}

\* C1: for every Label L drawn, parsing the string Display produces gives a
\* Label equal to L in all three fields: parse(display(L)) == L.
C1_ParseDisplayRoundTrip ==
    (lorigin = "label" /\ lphase = "reparsed") => lab2 = lab

\* C2: at most one process holds .focus/focus.lock, at most one of
\* sync::run, selection::add and selection::remove is in progress, and a
\* subcommand is inside its operation only while holding the lock that
\* hold_lock_file returned.
C2_OneLockHolder ==
    /\ Cardinality(lockHolders) <= 1
    /\ Cardinality({p \in Procs : InOperation(p)}) <= 1
    /\ \A p \in Procs : InOperation(p) => p \in lockHolders

C2_Witness ==
    \E p, q \in Procs :
        /\ p # q
        /\ InOperation(p) /\ p \in lockHolders
        /\ pc[q] \in {"sync_lock", "sel_lock"}

\* at most one sync is past the lock, and nobody changes the selection a
\* running sync loaded
C3_Exclusive ==
    /\ Cardinality({p \in Procs : pc[p] \in {"sync_run", "syncing"}}) <= 1
    /\ \A p \in Procs : pc[p] = "syncing" => snap[p] = selection

\* a sync that finds the lock held fails with Busy instead of waiting
C3_BusyNotWaiting ==
    \A q \in Procs :
        (pc[q] = "sync_lock" /\ lockHolders # {} /\ pc'[q] # pc[q])
            => /\ pc'[q] = "done" /\ result'[q] = "Busy"
               /\ lockHolders' = lockHolders
               /\ UNCHANGED <<selection, sparse, diskVersion>>

\* a successful sync leaves the patterns a sync running alone would leave
C3_SingleRunOutcome ==
    \A p \in Procs :
        (pc[p] = "syncing" /\ pc'[p] = "done" /\ result'[p] = "Ok")
            => sparse' = Resolve(selection) /\ selection' = selection

\* C3: of two concurrent sync attempts only one is inside the sync; the one
\* that tries the lock while it is held returns Busy in that very step and
\* leaves the holder alone; the sync that succeeds writes the patterns of
\* the selection as it stands, which nobody changed while it ran.
C3_ConcurrentSync ==
    [](C3_Exclusive) /\ [][C3_BusyNotWaiting /\ C3_SingleRunOutcome]_vars

C3_Witness ==
    \E p, q \in Procs :
        /\ p # q /\ runs = 2
        /\ cmd[p] = "Sync" /\ cmd[q] = "Sync"
        /\ pc[p] = "done" /\ result[p] = "Ok" /\ sparse = Resolve(selection)
        /\ pc[q] = "done" /\ result[q] = "Busy"

\* C4 as claimed: within one sync the lock is acquired first and the
\* migrations-required check runs only afterwards, while the lock is held.
C4_CheckUnderLock ==
    [][\A p \in Procs :
          (upgradeSeen[p] = "none" /\ upgradeSeen'[p] # "none")
              => p \in lockHolders]_vars

\* C4 amended: within one sync the migrations-required check runs first,
\* without the lock; the lock is acquired only after the check answered
\* that no upgrade is required, and sync::run is entered only after that,
\* with the lock held.
C4_CheckThenLock ==
    [][\A p \in Procs :
          /\ (upgradeSeen[p] = "none" /\ upgradeSeen'[p] # "none")
                => p \notin lockHolders /\ p \notin lockHolders'
          /\ (cmd[p] = "Sync" /\ p \notin lockHolders /\ p \in lockHolders')
                => upgradeSeen[p] = "no"
          /\ (pc[p] # "syncing" /\ pc'[p] = "syncing")
                => p \in lockHolders /\ upgradeSeen[p] = "no"]_vars

C4_Witness ==
    \E p \in Procs :
        /\ cmd[p] = "Sync" /\ pc[p] = "syncing"
        /\ upgradeSeen[p] = "no" /\ p \in lockHolders

\* C5: when is_upgrade_required answers true or fails, the Sync subcommand
\* has returned an error without taking the lock or entering sync::run; a
\* sync past the check runs on a repository that needs no upgrade.
C5_UpgradeGate ==
    \A p \in Procs :
        cmd[p] = "Sync" =>
            /\ upgradeSeen[p] \in {"yes", "failed"}
                  => /\ pc[p] = "done"
                     /\ result[p] = (IF upgradeSeen[p] = "yes"
                                     THEN "UpgradeRequired"
                                     ELSE "UpgradeCheckFailed")
                     /\ p \notin lockHolders
            /\ pc[p] \in {"sync_lock", "sync_run", "syncing"}
                  => upgradeSeen[p] = "no" /\ diskVersion >= RequiredVersion

C5_Witness ==
    \E p \in Procs :
        /\ cmd[p] = "Sync" /\ upgradeSeen[p] = "yes"
        /\ pc[p] = "done" /\ result[p] = "UpgradeRequired"
        /\ diskVersion < RequiredVersion

\* C6: every subcommand that mutates state under .focus/ (Sync, Add, Remove,
\* Upgrade) holds the lock while it mutates, so a migration run never
\* overlaps a sync, add or remove in progress.
C6_WholeRepoLock ==
    /\ \A p \in Procs : (InOperation(p) \/ pc[p] = "migrating") => p \in lockHolders
    /\ ~ \E p, q \in Procs : p # q /\ pc[p] = "migrating" /\ InOperation(q)

\* C7: the lock taken by Sync, Add or Remove is released on every exit path:
\* a process that returned does not hold it, and the lock is held only by
\* processes inside the scope of their _lock_file, so it is free for a later
\* invocation.
C7_LockReleased ==
    /\ \A p \in Procs : pc[p] = "done" => p \notin lockHolders
    /\ \A p \in lockHolders : InLockScope(p)

C7_Witness ==
    \E p, q \in Procs :
        /\ p # q
        /\ pc[p] = "done" /\ result[p] = "DirtyWorkingTree"
        /\ q \in lockHolders /\ pc[q] = "syncing"

\* C8: for every label string s drawn, parsing s succeeds and the displayed
\* form d = display(parse(s)) is a fixed point: display(parse(d)) == d.
C8_DisplayFixedPoint ==
    lorigin = "str" =>
        /\ lphase # "str" => lab.ok
        /\ lphase \in {"reparsed", "reshown"} => lab2.ok
        /\ lphase = "reshown" => shown2 = shown

C8_Witness ==
    /\ lorigin = "str" /\ lphase = "reshown"
    /\ shown2 = shown
    /\ lab.label.target_name = Ellipsis
    /\ lab2.label # lab.label

\* the first ':' of the coordinate input, 0 when there is none
FirstColon ==
    IF \E i \in 1..Len(cinput) : cinput[i] = ":"
    THEN CHOOSE i \in 1..Len(cinput) :
            cinput[i] = ":" /\ \A j \in 1..(i - 1) : cinput[j] # ":"
    ELSE 0

Scheme == SubSeq(cinput, 1, FirstColon - 1)
Payload == SubSeq(cinput, FirstColon + 1, Len(cinput))
LowerCase(s) == [i \in 1..Len(s) |-> ToAsciiLower(s[i])]

\* C9: label parsing is total: NoTargetName is never produced, and an input
\* with the bazel scheme parses to a Bazel coordinate whatever follows the
\* scheme, the empty string included; it never fails with LabelError.
C9_LabelParsingTotal ==
    cphase = "parsed" =>
        /\ cres.kind # "LabelError"
        /\ (FirstColon > 0 /\ LowerCase(Scheme) = Bazel)
              => cres.ok /\ cres.kind = "Bazel"

C9_Witness ==
    /\ cphase = "parsed" /\ cres.ok /\ cres.kind = "Bazel"
    /\ Payload = <<>>
    /\ cres.label = Label(None, << <<>> >>, Name(<<>>))

\* C10: the input is split once at its first ':'; the part before it is
\* matched without regard to letter case against bazel, directory and
\* pants; directory and pants keep the whole remainder verbatim, bazel
\* parses the remainder as a Label.
C10_SplitOnceAtFirstColon ==
    (cphase = "parsed" /\ FirstColon > 0) =>
        /\ LowerCase(Scheme) = Directory <=> cres = CoordDirectory(Payload)
        /\ LowerCase(Scheme) = Pants <=> cres = CoordPants(Payload)
        /\ LowerCase(Scheme) = Bazel
              <=> (cres.kind = "Bazel" /\ OkLabel(cres.label) = FromStr(Payload))

C10_Witness ==
    /\ cphase = "parsed" /\ cres.kind = "Directory"
    /\ cinput[1] = "D"
    /\ \E i \in 1..Len(cres.text) : cres.text[i] = ":"
    /\ cres.text = Payload

\* the first ':' of a string, 0 when there is none
ColonAt(s) ==
    IF \E i \in 1..Len(s) : s[i] = ":"
    THEN CHOOSE i \in 1..Len(s) : s[i] = ":" /\ \A j \in 1..(i - 1) : s[j] # ":"
    ELSE 0

SchemeOf(s) == SubSeq(s, 1, ColonAt(s) - 1)
PayloadOf(s) == SubSeq(s, ColonAt(s) + 1, Len(s))
IsScheme(prefix) == LowerCase(prefix) \in {Bazel, Directory, Pants}

\* the i-th string of the list has a ':' and a prefix that is no scheme
UnsupportedAt(i) == ColonAt(slist[i]) > 0 /\ ~IsScheme(SchemeOf(slist[i]))

\* every such string consumed so far got UnsupportedScheme with its prefix
\* as written
UnsupportedElements ==
    \A i \in 1..Len(selems) :
        UnsupportedAt(i) => selems[i] = UnsupportedScheme(SchemeOf(slist[i]))

\* C11 as claimed: a string with a ':' and a prefix that is no scheme fails
\* with UnsupportedScheme carrying the prefix as written, and the conversion
\* of any list containing such a string fails with that same error.
C11_UnsupportedSchemeAnywhere ==
    /\ UnsupportedElements
    /\ sphase \in {"built", "failed"} =>
          \A i \in 1..Len(slist) :
              UnsupportedAt(i)
                  => sset = ErrSet(UnsupportedScheme(SchemeOf(slist[i])))

\* C11 amended: a string with a ':' and a prefix that is no scheme fails
\* with UnsupportedScheme carrying the prefix as written, and the conversion
\* of a list fails with that same error when such a string is the first
\* string of the list that fails to parse.
C11_UnsupportedSchemeFirst ==
    /\ UnsupportedElements
    /\ sphase \in {"built", "failed"} =>
          \A i \in 1..Len(slist) :
              (/\ UnsupportedAt(i)
               /\ \A j \in 1..(i - 1) : j <= Len(selems) /\ selems[j].ok)
                  => sset = ErrSet(UnsupportedScheme(SchemeOf(slist[i])))

C11_Witness ==
    /\ sphase = "failed" /\ Len(slist) = 2
    /\ selems[1].ok
    /\ sset = ErrSet(UnsupportedScheme(<<"B", "o", "g", "u", "S">>))

\* C12: Coordinate::try_from fails with TokenizationError exactly when its
\* input contains no ':'.
C12_TokenizationIffNoColon ==
    cphase = "parsed" =>
        (cres.kind = "TokenizationError" <=> \A i \in 1..Len(cinput) : cinput[i] # ":")

C12_Witness ==
    /\ cphase = "parsed" /\ cres = TokenizationError
    /\ cinput = Bazel \o <<"/", "/", "a">>

\* the variants the members of a set of coordinates use
Variants(set) == {c.kind : c \in set}

\* C13: every CoordinateSet, built by From<HashSet<Coordinate>> or by
\* TryFrom<&[String]>, has is_uniform() equal to
\* determine_uniformity(underlying()), which is true exactly when the members
\* use at most one of the variants Bazel, Directory and Pants; the empty set
\* is uniform.
C13_UniformityFlag ==
    sphase \in {"built", "resolved"} =>
        /\ sset.ok
        /\ sset.uniform = DetermineUniformity(sset.underlying)
        /\ sset.uniform <=> Cardinality(Variants(sset.underlying)) <= 1
        /\ sset.underlying = {} => sset.uniform

C13_Witness ==
    /\ sphase = "built" /\ Len(slist) = 2
    /\ Cardinality(sset.underlying) = 2
    /\ Variants(sset.underlying) = {"Bazel", "Directory"}
    /\ ~sset.uniform

\* the positions of the list whose string fails to parse
Failing == {i \in 1..Len(slist) : ~CoordinateTryFrom(slist[i]).ok}

\* C14: CoordinateSet::try_from returns the error of the first string, in
\* list order, that fails to parse, and otherwise the set of the distinct
\* parsed coordinates, whose size never exceeds the list length.
C14_FirstErrorOrDistinct ==
    (sphase \in {"built", "failed", "resolved"} /\ slist # <<>>) =>
        IF Failing # {}
        THEN LET first == CHOOSE i \in Failing : \A j \in Failing : i <= j
             IN sset = ErrSet(CoordinateTryFrom(slist[first]))
        ELSE /\ sset.ok
             /\ sset.underlying = {CoordinateTryFrom(slist[i]) : i \in 1..Len(slist)}
             /\ Cardinality(sset.underlying) <= Len(slist)

C14_Witness ==
    /\ sphase = "built" /\ Len(slist) = 2 /\ slist[1] # slist[2]
    /\ sset.underlying = {CoordBazel(Label(None, << <<"a">> >>, Name(<<"a">>)))}

\* the set handed to the resolver holds Directory targets only
DirectoriesOnly == \A c \in sset.underlying : c.kind = "Directory"

\* the resolver returned the path and the dependency of every target of the
\* set and nothing else
IdentityResolution ==
    /\ rres.kind = "Ok"
    /\ \A c \in sset.underlying :
          /\ PathBufFrom(c.text) \in rres.paths
          /\ <<DependencyKeyPath(c.text), DependencyValuePath(c.text)>>
                \in rres.package_deps
    /\ \A x \in rres.paths : \E c \in sset.underlying : x = PathBufFrom(c.text)
    /\ \A e \in rres.package_deps :
          \E c \in sset.underlying :
              e = <<DependencyKeyPath(c.text), DependencyValuePath(c.text)>>

\* C15 as claimed: for a set of Directory targets only, resolve returns Ok
\* with the path and the dependency of every target and nothing else, and
\* paths and package_deps each have exactly as many entries as the set has
\* Directory targets.
C15_OneEntryPerTarget ==
    (sphase = "resolved" /\ DirectoriesOnly) =>
        /\ IdentityResolution
        /\ Cardinality(rres.paths) = Cardinality(sset.underlying)
        /\ Cardinality(rres.package_deps) = Cardinality(sset.underlying)

\* two payloads name one path: they differ only in empty segments and in
\* "." segments other than a leading one of a path without root
SamePath(d, e) == PathBufFrom(d) = PathBufFrom(e)

\* C15 amended: for a set of Directory targets only, resolve returns Ok with
\* the path and the dependency of every target and nothing else; paths and
\* package_deps have one entry per distinct path, never more than the set
\* has targets, and exactly as many when no two targets name one path.
C15_OneEntryPerPath ==
    (sphase = "resolved" /\ DirectoriesOnly) =>
        /\ IdentityResolution
        /\ Cardinality(rres.paths) = Cardinality(rres.package_deps)
        /\ Cardinality(rres.paths) <= Cardinality(sset.underlying)
        /\ Cardinality(rres.paths) = Cardinality(sset.underlying)
              <=> \A c, d \in sset.underlying : SamePath(c.text, d.text) => c = d

C15_Witness ==
    /\ sphase = "resolved" /\ rres.kind = "Ok"
    /\ sset.underlying = {CoordDirectory(<<"a">>), CoordDirectory(<<"a", "/">>)}
    /\ Cardinality(rres.paths) = 1

\* the text after the last '/' of s, all of s when it has none
LastSegment(s) ==
    LET slashes == {i \in 1..Len(s) : s[i] = "/"}
    IN IF slashes = {} THEN s
       ELSE SubSeq(s, (CHOOSE i \in slashes : \A j \in slashes : j <= i) + 1, Len(s))

HasColon(s) == \E i \in 1..Len(s) : s[i] = ":"

HasSlash(s) == \E i \in 1..Len(s) : s[i] = "/"

ThreeDots == <<".", ".", ".">>

\* the positions where "//" occurs in s
DoubleSlashes(s) == {i \in 1..(Len(s) - 1) : s[i] = "/" /\ s[i + 1] = "/"}

\* the text after the first "//" of s, all of s when it has none
Body(s) ==
    IF DoubleSlashes(s) = {} THEN s
    ELSE SubSeq(s, (CHOOSE i \in DoubleSlashes(s) :
                        \A j \in DoubleSlashes(s) : i <= j) + 2, Len(s))

\* the text before the first "//" of s
Prefix(s) ==
    SubSeq(s, 1, (CHOOSE i \in DoubleSlashes(s) :
                      \A j \in DoubleSlashes(s) : i <= j) - 1)

\* C16: a label string whose last segment has no ':' and is not the ellipsis
\* parses to Name(c) with c its last segment, c is the last element of
\* path_components, and the string with ":c" appended parses to the same
\* Label.
C16_NameDefaultsToLastComponent ==
    (lorigin = "str" /\ lphase # "str"
       /\ ~HasColon(LastSegment(lstr)) /\ LastSegment(lstr) # ThreeDots) =>
        /\ lab.ok
        /\ lab.label.target_name = Name(LastSegment(lstr))
        /\ Len(lab.label.path_components) > 0
        /\ lab.label.path_components[Len(lab.label.path_components)]
              = LastSegment(lstr)
        /\ FromStr(lstr \o <<":">> \o LastSegment(lstr)) = lab

C16_Witness ==
    /\ lphase = "parsed"
    /\ lstr = <<"/", "/", "a", "/", "a">>
    /\ lab = OkLabel(Label(None, << <<"a">>, <<"a">> >>, Name(<<"a">>)))

RepositoryTokens == {<<"@">>, <<"@", "a">>, <<"@", ".">>, <<"@", "@">>}

\* C18: a string t without "//" parses like "//" + t, with no external
\* repository; with a token '@x' in front of the "//" it parses to the
\* external repository Some('@x') and to the path components and target
\* name of "//" + t.
C18_OptionalPrefix ==
    (lorigin = "str" /\ lphase # "str") =>
        /\ DoubleSlashes(lstr) = {} =>
              /\ lab.ok /\ lab.label.external_repository = None
              /\ FromStr(<<"/", "/">> \o lstr) = lab
              /\ \A x \in RepositoryTokens :
                    FromStr(x \o <<"/", "/">> \o lstr)
                       = OkLabel(Label(Some(x), lab.label.path_components,
                                       lab.label.target_name))
        /\ (DoubleSlashes(lstr) # {} /\ Prefix(lstr) \in RepositoryTokens
              /\ DoubleSlashes(Body(lstr)) = {}) =>
              /\ lab.ok /\ lab.label.external_repository = Some(Prefix(lstr))
              /\ LET plain == FromStr(<<"/", "/">> \o Body(lstr))
                 IN /\ plain.ok
                    /\ lab.label.path_components = plain.label.path_components
                    /\ lab.label.target_name = plain.label.target_name

C18_Witness ==
    /\ lphase = "parsed"
    /\ lstr = <<"@", "a", "/", "/", "a">>
    /\ lab = OkLabel(Label(Some(<<"@", "a">>), << <<"a">> >>, Name(<<"a">>)))

\* C19: the displayed form of a Label is "//", then the path components
\* joined with '/', then ":name" for a Name (also when the name repeats the
\* last component) or "/..." for Ellipsis.
C19_CanonicalDisplay ==
    lphase = "shown" =>
        LET l == lab.label
            middle == Join(l.path_components, <<"/">>)
            ending == SubSeq(shown, 3 + Len(middle), Len(shown))
        IN /\ Len(shown) >= 2 + Len(middle)
           /\ SubSeq(shown, 1, 2) = <<"/", "/">>
           /\ SubSeq(shown, 3, 2 + Len(middle)) = middle
           /\ l.target_name.kind = "Name" => ending = <<":">> \o l.target_name.name
           /\ l.target_name.kind = "Ellipsis" => ending = <<"/">> \o ThreeDots

C19_Witness ==
    /\ lphase = "shown" /\ lorigin = "label"
    /\ lab.label = Label(None, << <<"a">> >>, Name(<<"a">>))
    /\ shown = <<"/", "/", "a", ":", "a">>

\* the subcommands that call into operation::selection
SelectionSubcommands == {"Add", "Remove", "Status", "Projects"}

\* C20: in a directory that is not a focused repository, Add, Remove, Status
\* and Projects never get past the first step of their arm: they fail
\* (NotFocused, or CurrentDirFailed when there is no directory to test)
\* without taking the lock file and without entering a selection operation.
C20_FocusedRepoAsserted ==
    \A p \in Procs :
        (cmd[p] \in SelectionSubcommands /\ ~focused) =>
            /\ pc[p] \in {"start", "done"}
            /\ p \notin lockHolders
            /\ pc[p] = "done" => result[p] \in {"NotFocused", "CurrentDirFailed"}

C20_Witness ==
    \E p, q \in Procs :
        /\ ~focused
        /\ cmd[p] = "Status" /\ pc[p] = "done" /\ result[p] = "NotFocused"
        /\ cmd[q] = "Add" /\ pc[q] = "done" /\ result[q] = "NotFocused"
        /\ lockHolders = {}

\* the process of main has ended
Terminated == mpc \in {"failed", "exited"}

\* C21: whenever run_subcommand or a step of main_and_drop_locals returns
\* Err the process ends with exit code 1, and it ends with 0 only if
\* run_subcommand returned Ok(ExitCode(0)).
C21_ExitCodes ==
    /\ mpc = "failed" => mexit = 1
    /\ (Terminated /\ mrun.kind = "Err") => mexit = 1
    /\ (Terminated /\ mexit = 0) => mrun = OkExitCode(0)
    /\ mpc = "exited" => (mrun.kind = "Ok" /\ mexit = mrun.code)
    /\ ~Terminated => mexit = NoCode

C21_Witness ==
    /\ mpc = "failed" /\ mexit = 1
    /\ mrun = OkExitCode(0) /\ minvocation = 0

\* C26 as claimed: the exit code written to the invocation message equals
\* the exit code of the process.
C26_InvocationMessageIsExitCode ==
    (Terminated /\ minvocation # NoCode) => minvocation = mexit

\* C22 as claimed: write_config and run_git_command_consuming_stdout return
\* Err whenever the git child exits with a non-zero status, and Ok only when
\* it exited with status 0.
C22_NonZeroExitIsError ==
    (gpc = "returned" /\ gspawned > 0
       /\ gcall.fn \in {"write_config", "run_git_command_consuming_stdout"}) =>
        /\ gstatus # 0 => gret.kind = "Err"
        /\ gret.kind = "Ok" => gstatus = 0

\* read_config has returned Ok
ReadConfigReturned ==
    gcall.fn = "read_config" /\ gpc = "returned" /\ gret.kind = "Ok"

\* C23: read_config spawns no child process and returns what the captured
\* stdout of the sandbox command already held, whatever repo_path and key
\* are.
C23_ReadConfigWithoutGit ==
    /\ [](gcall.fn = "read_config" =>
            /\ gspawned = 0 /\ gstatus = NoCode
            /\ gstdout \in CapturedBefore
            /\ ReadConfigReturned => gret.val = gstdout)
    /\ [][gcall.fn = "read_config" => gstdout' = gstdout]_vars

C23_Witness ==
    /\ ReadConfigReturned
    /\ gcall.key = "k2" /\ gcall.repo_path = "r2"
    /\ gret.val = <<"p">> /\ gspawned = 0

\* the steps of an Add / Remove process are in the order of the code
SelectionOrdered(p) ==
    /\ pc[p] \in {"start", "sel_lock", "sel_clean"} => cleanSeen[p] = "none"
    /\ pc[p] \in {"sel_lock", "sel_clean", "selecting"} => focused
    /\ pc[p] \in {"sel_clean", "selecting"} => p \in lockHolders
    /\ pc[p] = "selecting" => cleanSeen[p] = "clean"
    /\ pc[p] = "done" =>
          /\ result[p] \in {"NotFocused", "CurrentDirFailed", "Busy", "IoError"}
                => cleanSeen[p] = "none"
          /\ result[p] = "DirtyWorkingTree" => cleanSeen[p] = "dirty"
          /\ result[p] \in {"Ok", "SelectionFailed"} => cleanSeen[p] = "clean"

\* a step changes the selection only from inside the mutation of a process
\* that holds the lock and saw the tree clean, a failing step leaves the
\* selection alone, and the positions follow one another as in the code
SelectionStep ==
    /\ selection' # selection =>
          \E p \in Procs :
              /\ cmd[p] \in {"Add", "Remove"}
              /\ pc[p] = "selecting" /\ pc'[p] = "done"
              /\ p \in lockHolders /\ cleanSeen[p] = "clean"
              /\ result'[p] = "Ok"
    /\ \A p \in Procs :
          (cmd[p] \in {"Add", "Remove"} /\ pc[p] # "done"
             /\ pc'[p] = "done" /\ result'[p] # "Ok")
              => selection' = selection
    /\ \A p \in Procs :
          (cmd[p] \in {"Add", "Remove"} /\ pc'[p] # pc[p]) =>
              <<pc[p], pc'[p]>> \in
                  {<<"start", "sel_lock">>, <<"sel_lock", "sel_clean">>,
                   <<"sel_clean", "selecting">>, <<"start", "done">>,
                   <<"sel_lock", "done">>, <<"sel_clean", "done">>,
                   <<"selecting", "done">>, <<"done", "start">>}

\* C24: Add and Remove check the focused repository, take the lock, check
\* that the working tree is clean and mutate the selection, in this order;
\* a failed step ends the subcommand, and the selection changes only in a
\* step of a process that holds the lock and saw the working tree clean
\* under it.
C24_SelectionStepOrder ==
    /\ [](\A p \in Procs : cmd[p] \in {"Add", "Remove"} => SelectionOrdered(p))
    /\ [][SelectionStep]_vars

C24_Witness ==
    \E p, q \in Procs :
        /\ cmd[p] = "Add" /\ pc[p] = "done" /\ result[p] = "Ok"
        /\ cleanSeen[p] = "clean" /\ arg[p] \subseteq selection
        /\ cmd[q] = "Remove" /\ pc[q] = "done" /\ result[q] = "DirtyWorkingTree"

\* C25: DirectoryResolver::resolve returns Ok for every set of Directory
\* targets only, the empty set included, panics for every set with a Bazel
\* or Pants target, and never returns Err.
C25_OkOrPanic ==
    sphase = "resolved" =>
        /\ rres.kind \in {"Ok", "Panic"}
        /\ DirectoriesOnly <=> rres.kind = "Ok"
        /\ sset.underlying = {} => rres = [kind |-> "Ok", paths |-> {}, package_deps |-> {}]
        /\ (\E c \in sset.underlying : c.kind \in {"Bazel", "Pants"})
              => rres = Panicked

C25_Witness ==
    /\ sphase = "resolved" /\ rres.kind = "Panic"
    /\ \E c, d \in sset.underlying : c.kind = "Directory" /\ d.kind = "Bazel"

====
